---- MODULE Spec2Model ----
(***************************************************************************)
(* A model of crawler/web/web_crawler.py (class WebCrawler): the session   *)
(* allow-lists, domain admission, neighbourhood expansion and the          *)
(* multi-seed loop crawl_multiple_urls.                                    *)
(*                                                                         *)
(* Strings are sequences of one-character strings, so that Python's        *)
(* `domain in url` is a real substring search.  A graph is a record of two *)
(* duplicate-free sequences (insertion order, as a Python dict keeps it):  *)
(* nodes, a sequence of node ids, and edges, a sequence of <<from, to>>.   *)
(* WebNode, WebGraph and BaseCrawler.crawl are imported by the file and    *)
(* not part of it; they are modelled from the specification's sections 3,  *)
(* 4.1 and 4.5.                                                            *)
(***************************************************************************)
EXTENDS Integers, Sequences, FiniteSets, TLC

\* ------------------------------------------------------------------ bounds
MaxSeeds == 3
MaxResults == 8
MaxDepth == 1
MaxOvershoot == 1
MaxGraphIds == 2
MaxGraphs == 2

\* ----------------------------------------------------------------- strings
Http == <<"h", "t", "t", "p", ":", "/", "/">>
SchemeSep == <<":", "/", "/">>
DomA == <<"a", ".", "c", "o", "m">>
DomB == <<"b", ".", "c", "o", "m">>
DomC == <<"c", ".", "c", "o", "m">>
ExampleCom == <<"e", "x", "a", "m", "p", "l", "e", ".", "c", "o", "m">>
OtherCom == <<"o", "t", "h", "e", "r", ".", "c", "o", "m">>
EvilSuffix == <<".", "e", "v", "i", "l", ".", "c", "o", "m">>

Page(dom, path) == Http \o dom \o <<"/">> \o path

UrlExamplePage == Page(ExampleCom, <<"p", "a", "g", "e">>)
UrlOther == Http \o OtherCom
UrlEvil == Http \o ExampleCom \o EvilSuffix
UrlAx == Page(DomA, <<"x">>)
UrlA1 == Page(DomA, <<"1">>)
UrlB2 == Page(DomB, <<"2">>)
SeedA == Page(DomA, <<>>)
SeedB == Page(DomB, <<>>)
SeedC == Page(DomC, <<>>)
\* A seed with no scheme, and the empty string: malformed identifiers.
UrlNoScheme == DomA
UrlEmpty == <<>>

Digits == <<"1", "2", "3", "4", "5">>

\* The pages of the modelled web.
Seeds == {SeedA, SeedB, SeedC}
Urls ==
    Seeds \cup {Page(d, <<Digits[i]>>) : d \in {DomA, DomB, DomC}, i \in 1..5}
          \cup {UrlExamplePage, UrlOther, UrlEvil, UrlAx, UrlNoScheme, UrlEmpty}

\* ------------------------------------------------------- the page fetcher
\* WebNode.fetch_connected_hyperlinks(): the raw hyperlinks of a page, in
\* document order, repeated links kept.  Each seed links to four pages of
\* its own domain; the seed of a.com repeats a link and links to b.com;
\* page 1 of a domain links one hop further and back to its seed.
SeedLinks(d) == [i \in 1..4 |-> Page(d, <<Digits[i]>>)]

Links(u) ==
    CASE u = SeedA -> SeedLinks(DomA) \o <<Page(DomA, <<"1">>), Page(DomB, <<"1">>)>>
      [] u = SeedB -> SeedLinks(DomB) \o <<Page(DomC, <<"1">>)>>
      [] u = SeedC -> SeedLinks(DomC)
      [] u = UrlAx -> <<UrlA1, UrlB2>>
      [] u = Page(DomA, <<"1">>) -> <<Page(DomA, <<"5">>), SeedA>>
      [] u = Page(DomB, <<"1">>) -> <<Page(DomB, <<"5">>), SeedB>>
      [] u = Page(DomC, <<"1">>) -> <<Page(DomC, <<"5">>), SeedC>>
      [] u = UrlExamplePage -> <<UrlEvil, UrlOther, UrlExamplePage, UrlEvil>>
      [] OTHER -> <<>>

\* ------------------------------------------------------------------ helpers
Range(s) == {s[i] : i \in 1..Len(s)}

\* Python's `d in u` for strings: d occurs in u as a contiguous substring.
IsSubstring(d, u) ==
    \E i \in 0..(Len(u) - Len(d)) : SubSeq(u, i + 1, i + Len(d)) = d

\* The first position at which d occurs in u, or 0.
Find(d, u) ==
    IF IsSubstring(d, u)
    THEN 1 + CHOOSE i \in 0..(Len(u) - Len(d)) :
                 /\ SubSeq(u, i + 1, i + Len(d)) = d
                 /\ \A j \in 0..(i - 1) : SubSeq(u, j + 1, j + Len(d)) # d
    ELSE 0

\* WebNode.domain: the host component of the id; empty when the id has no
\* "scheme://" part.
domain_of(id) ==
    LET p == Find(SchemeSep, id) IN
    IF p = 0 THEN <<>>
    ELSE LET rest == SubSeq(id, p + Len(SchemeSep), Len(id))
             q == Find(<<"/">>, rest)
         IN IF q = 0 THEN rest ELSE SubSeq(rest, 1, q - 1)

\* WebNode(id)
WebNode(id) == [id |-> id]

\* WebGraph()
EmptyGraph == [nodes |-> <<>>, edges |-> <<>>]

\* WebGraph.add_node(node): the id is added unless present.
add_node(g, id) ==
    IF id \in Range(g.nodes) THEN g ELSE [g EXCEPT !.nodes = Append(@, id)]

\* WebGraph.add_edge: both ends become nodes, the edge is added unless present.
add_edge(g, e) ==
    LET h == add_node(add_node(g, e[1]), e[2]) IN
    IF e \in Range(h.edges) THEN h ELSE [h EXCEPT !.edges = Append(@, e)]

\* WebGraph.all_nodes()
all_nodes(g) == g.nodes

\* max_results: None, or an integer.
NoneVal == [some |-> FALSE, val |-> 0]
Some(n) == [some |-> TRUE, val |-> n]

\* -------------------------------------------------------------------- state
VARIABLES
    base_allowed_domains,     \* self.base_allowed_domains
    session_allowed_domains,  \* self.session_allowed_domains
    last_session,             \* the arguments of the last session start
    ret,                      \* the last call of the query API and its result
    graphs,                   \* the session graphs the caller holds, oldest first
    pc,                       \* position inside crawl_multiple_urls
    urls, max_depth, max_results,   \* its arguments
    overshoot,                \* how far a single-seed crawl may pass its budget
    idx,                      \* the loop position in urls (1-based)
    crawl_subgraph,           \* the accumulator
    remaining_results,        \* the local of that name
    subgraph,                 \* the last graph self.crawl returned
    issued,                   \* every self.crawl call made by the run
    mA, mB, mAB, mBA, mOnce, mpc    \* the merge algebra (SpecMerge)

sessionVars == <<base_allowed_domains, session_allowed_domains, last_session, ret,
                 graphs>>
batchVars == <<pc, urls, max_depth, max_results, overshoot, idx, crawl_subgraph,
               remaining_results, subgraph, issued>>
mergeVars == <<mA, mB, mAB, mBA, mOnce, mpc>>
vars == <<sessionVars, batchVars, mergeVars>>

NoSession == [started |-> FALSE, id |-> <<>>, restrict |-> FALSE, before |-> <<>>]
NoRet == [op |-> "none", arg |-> <<>>, restrict |-> FALSE, ok |-> FALSE,
          nodes |-> <<>>, graph |-> EmptyGraph]

\* The allow-lists a crawler is constructed with.
BaseChoices == {<<>>, <<ExampleCom>>, <<DomA>>, <<DomB>>, <<DomA, DomB>>}

\* The identifiers sessions are started from.
SessionStarts == {UrlAx, SeedA, SeedB, UrlExamplePage, UrlNoScheme, UrlEmpty}

\* ------------------------------------------------------- domain admission
\* in_allowed_domain, as a function of the two lists it reads.
in_allowed_domain_NoEmptyRule(base, session, url) ==
    LET all_allowed_domains == base \o session IN
    \E i \in 1..Len(all_allowed_domains) : IsSubstring(all_allowed_domains[i], url)

in_allowed_domain_HostMatch(base, session, url) ==
    LET all_allowed_domains == base \o session IN
    \/ Len(all_allowed_domains) = 0
    \/ \E i \in 1..Len(all_allowed_domains) : all_allowed_domains[i] = domain_of(url)

admits(base, session, url) ==
    LET all_allowed_domains == base \o session IN
    \/ Len(all_allowed_domains) = 0
    \/ \E i \in 1..Len(all_allowed_domains) : IsSubstring(all_allowed_domains[i], url)

\* The list comprehension of visit_node_neighborhood: one WebNode per
\* admitted hyperlink, in order.
RECURSIVE allowed_neighbors(_, _, _)
allowed_neighbors(base, session, node_neighbors) ==
    IF node_neighbors = <<>> THEN <<>>
    ELSE LET neighbor == Head(node_neighbors)
             rest == allowed_neighbors(base, session, Tail(node_neighbors))
         IN IF admits(base, session, neighbor)
            THEN <<WebNode(neighbor)>> \o rest
            ELSE rest

RECURSIVE Uniq(_)
Uniq(s) ==
    IF s = <<>> THEN <<>>
    ELSE LET f == Uniq(SubSeq(s, 1, Len(s) - 1)) IN
         IF s[Len(s)] \in Range(f) THEN f ELSE Append(f, s[Len(s)])

neighborhood_Dedup(base, session, id) ==
    Uniq(allowed_neighbors(base, session, Links(id)))

\* A filter that looks at the crawler's own list only.
neighborhood_BaseOnly(base, session, id) ==
    allowed_neighbors(base, <<>>, Links(id))

\* visit_node_neighborhood's result for the node with this id.
neighborhood(base, session, id) ==
    allowed_neighbors(base, session, Links(id))

\* ------------------------------------------------------------- session API
\* The session list and the graph start_new_crawling_session leaves.
session_after(start_node_id, restrict_to_domain) ==
    IF restrict_to_domain THEN <<domain_of(start_node_id)>> ELSE <<>>

\* One WebGraph for all sessions: the start node is added to the graph the
\* previous session returned.
session_graph_Shared(start_node_id) ==
    add_node(IF graphs = <<>> THEN EmptyGraph ELSE graphs[Len(graphs)].graph,
             start_node_id)

session_graph(start_node_id) == add_node(EmptyGraph, start_node_id)

\* The caller keeps the MaxGraphs graphs it was handed last.  Each is a
\* separate object: [graph, start, added], with the node the session started
\* from and the ids the caller has added since.
held(objects) ==
    IF Len(objects) > MaxGraphs THEN SubSeq(objects, 2, Len(objects)) ELSE objects

start_new_crawling_session_NoClear(start_node_id, restrict_to_domain) ==
    /\ pc = "idle"
    /\ session_allowed_domains' =
           IF restrict_to_domain
           THEN <<domain_of(start_node_id)>>
           ELSE session_allowed_domains
    /\ last_session' = [started |-> TRUE, id |-> start_node_id,
                        restrict |-> restrict_to_domain,
                        before |-> session_allowed_domains]
    /\ ret' = [NoRet EXCEPT !.op = "start_new_crawling_session",
                            !.arg = start_node_id,
                            !.restrict = restrict_to_domain,
                            !.graph = session_graph(start_node_id)]
    /\ UNCHANGED <<base_allowed_domains, batchVars, mergeVars>>

start_new_crawling_session(start_node_id, restrict_to_domain) ==
    /\ pc = "idle"
    /\ session_allowed_domains' = session_after(start_node_id, restrict_to_domain)
    /\ last_session' = [started |-> TRUE, id |-> start_node_id,
                        restrict |-> restrict_to_domain,
                        before |-> session_allowed_domains]
    /\ ret' = [NoRet EXCEPT !.op = "start_new_crawling_session",
                            !.arg = start_node_id,
                            !.restrict = restrict_to_domain,
                            !.graph = session_graph(start_node_id)]
    /\ UNCHANGED <<base_allowed_domains, batchVars, mergeVars>>

\* A session start whose caller lets go of the returned graph, and one whose
\* caller holds on to it.
start_session_dropped(start_node_id, restrict_to_domain) ==
    /\ start_new_crawling_session(start_node_id, restrict_to_domain)
    /\ UNCHANGED graphs

start_session_held(start_node_id, restrict_to_domain) ==
    /\ start_new_crawling_session(start_node_id, restrict_to_domain)
    /\ graphs' = held(Append(graphs, [graph |-> ret'.graph,
                                      start |-> start_node_id, added |-> {}]))

get_node(node_id) ==
    /\ pc = "idle"
    /\ ret' = [NoRet EXCEPT !.op = "get_node", !.arg = node_id,
                            !.nodes = <<WebNode(node_id)>>]
    /\ UNCHANGED <<base_allowed_domains, session_allowed_domains, last_session,
                   graphs, batchVars, mergeVars>>

\* An admission check that builds the effective list in place: the session
\* entries are appended to the crawler's own list.
in_allowed_domain_InPlace(url) ==
    /\ pc = "idle"
    /\ base_allowed_domains' = base_allowed_domains \o session_allowed_domains
    /\ ret' = [NoRet EXCEPT !.op = "in_allowed_domain", !.arg = url,
                            !.ok = admits(base_allowed_domains,
                                          session_allowed_domains, url)]
    /\ UNCHANGED <<session_allowed_domains, last_session, graphs, batchVars,
                   mergeVars>>

in_allowed_domain(url) ==
    /\ pc = "idle"
    /\ ret' = [NoRet EXCEPT !.op = "in_allowed_domain", !.arg = url,
                            !.ok = admits(base_allowed_domains,
                                          session_allowed_domains, url)]
    /\ UNCHANGED <<base_allowed_domains, session_allowed_domains, last_session,
                   graphs, batchVars, mergeVars>>

\* A visit that narrows the session to the domain of the node it visits.
visit_node_neighborhood_Narrowing(node) ==
    /\ pc = "idle"
    /\ session_allowed_domains' = <<domain_of(node.id)>>
    /\ ret' = [NoRet EXCEPT !.op = "visit_node_neighborhood", !.arg = node.id,
                            !.nodes = neighborhood(base_allowed_domains,
                                                   session_allowed_domains, node.id)]
    /\ UNCHANGED <<base_allowed_domains, last_session, graphs, batchVars, mergeVars>>

visit_node_neighborhood(node) ==
    /\ pc = "idle"
    /\ ret' = [NoRet EXCEPT !.op = "visit_node_neighborhood", !.arg = node.id,
                            !.nodes = neighborhood(base_allowed_domains,
                                                   session_allowed_domains, node.id)]
    /\ UNCHANGED <<base_allowed_domains, session_allowed_domains, last_session,
                   graphs, batchVars, mergeVars>>

\* ------------------------------------------------------------- graph merge
RECURSIVE add_nodes(_, _)
add_nodes(g, ids) ==
    IF ids = <<>> THEN g ELSE add_nodes(add_node(g, Head(ids)), Tail(ids))

RECURSIVE add_edges(_, _)
add_edges(g, es) ==
    IF es = <<>> THEN g ELSE add_edges(add_edge(g, Head(es)), Tail(es))

\* A merge that appends without looking for what is already there.
graph_update_Append(g, h) ==
    [nodes |-> g.nodes \o h.nodes, edges |-> g.edges \o h.edges]

\* A merge with the semantics of dict.update on an adjacency mapping: the
\* neighbours of a node of h replace those the node had in g.
graph_update_Overwrite(g, h) ==
    LET kept == SelectSeq(g.edges, LAMBDA e : e[1] \notin Range(h.nodes)) IN
    add_edges(add_nodes([nodes |-> g.nodes, edges |-> kept], h.nodes), h.edges)

\* A merge that replaces the accumulator by the subgraph.
graph_update_Replace(g, h) == h

\* crawl_subgraph.graph.update(subgraph.graph): every node and every edge
\* of h is added to g unless present.
graph_update(g, h) == add_edges(add_nodes(g, h.nodes), h.edges)

\* ------------------------------------------------------- single-seed crawl
\* BaseCrawler.crawl(url, max_depth, max_results): a session is started on
\* the seed, then the seed is expanded breadth first (FIFO frontier, depth
\* in hops from the seed) through visit_node_neighborhood; nothing is added
\* once the graph holds max_results nodes.
full(g, budget) == budget.some /\ Len(all_nodes(g)) >= budget.val

\* The neighbours nb of the node cur are added to g: [g, fresh], fresh the
\* ids that were new.
RECURSIVE expand(_, _, _, _, _)
expand(g, fresh, cur, nb, budget) ==
    IF nb = <<>> \/ full(g, budget) THEN [g |-> g, fresh |-> fresh]
    ELSE LET n == Head(nb).id IN
         expand(add_edge(g, <<cur, n>>),
                IF n \in Range(g.nodes) THEN fresh ELSE Append(fresh, n),
                cur, Tail(nb), budget)

RECURSIVE bfs(_, _, _, _, _, _)
bfs(base, session, g, queue, depth_limit, budget) ==
    IF queue = <<>> \/ full(g, budget) THEN g
    ELSE LET cur == Head(queue) IN
         IF cur.depth >= depth_limit
         THEN bfs(base, session, g, Tail(queue), depth_limit, budget)
         ELSE LET r == expand(g, <<>>, cur.id,
                              neighborhood(base, session, cur.id), budget)
                  more == [i \in 1..Len(r.fresh) |->
                              [id |-> r.fresh[i], depth |-> cur.depth + 1]]
              IN bfs(base, session, r.g, Tail(queue) \o more, depth_limit, budget)

crawl(base, url, depth_limit, budget) ==
    bfs(base, session_after(url, TRUE), session_graph(url),
        <<[id |-> url, depth |-> 0]>>, depth_limit, budget)

\* ------------------------------------------------------ crawl_multiple_urls
\* Lines 160-161: the accumulator and the running budget are set up.
crawl_multiple_urls(us, md, mr, k) ==
    /\ pc = "idle"
    /\ pc' = "for"
    /\ urls' = us
    /\ max_depth' = md
    /\ max_results' = mr
    /\ overshoot' = k
    /\ idx' = 1
    /\ crawl_subgraph' = EmptyGraph
    /\ remaining_results' = mr
    /\ subgraph' = EmptyGraph
    /\ issued' = <<>>
    /\ UNCHANGED <<sessionVars, mergeVars>>

\* The loop head without the budget tests of lines 165-172.
for_url_NoBudgetTest ==
    /\ pc = "for"
    /\ pc' = IF idx > Len(urls) THEN "return" ELSE "crawl"
    /\ UNCHANGED <<remaining_results, urls, max_depth, max_results, overshoot, idx,
                   crawl_subgraph, subgraph, issued, sessionVars, mergeVars>>

\* The loop head with the budget tests, the budget never recomputed.
for_url_StaleBudget ==
    /\ pc = "for"
    /\ pc' = IF idx > Len(urls) THEN "return"
             ELSE IF max_results.some
                     /\ Len(all_nodes(crawl_subgraph)) >= max_results.val
                  THEN "return"
                  ELSE "crawl"
    /\ UNCHANGED <<remaining_results, urls, max_depth, max_results, overshoot, idx,
                   crawl_subgraph, subgraph, issued, sessionVars, mergeVars>>

\* The loop head testing for the end of the list one position late.
for_url_LateEnd ==
    /\ pc = "for"
    /\ LET have == Len(all_nodes(crawl_subgraph))
           left == max_results.val - have
       IN IF idx > Len(urls) + 1
          THEN pc' = "return" /\ UNCHANGED remaining_results
          ELSE IF max_results.some /\ have >= max_results.val
          THEN pc' = "return" /\ UNCHANGED remaining_results
          ELSE IF max_results.some
          THEN /\ remaining_results' = Some(left)
               /\ pc' = IF left <= 0 THEN "return" ELSE "crawl"
          ELSE pc' = "crawl" /\ UNCHANGED remaining_results
    /\ UNCHANGED <<urls, max_depth, max_results, overshoot, idx, crawl_subgraph,
                   subgraph, issued, sessionVars, mergeVars>>

\* Lines 163-172: the next seed is taken, or the loop ends (the list is
\* exhausted, or one of the two budget tests breaks out of it).
for_url ==
    /\ pc = "for"
    /\ LET have == Len(all_nodes(crawl_subgraph))
           left == max_results.val - have
       IN IF idx > Len(urls)
          THEN pc' = "return" /\ UNCHANGED remaining_results
          ELSE IF max_results.some /\ have >= max_results.val
          THEN pc' = "return" /\ UNCHANGED remaining_results
          ELSE IF max_results.some
          THEN /\ remaining_results' = Some(left)
               /\ pc' = IF left <= 0 THEN "return" ELSE "crawl"
          ELSE pc' = "crawl" /\ UNCHANGED remaining_results
    /\ UNCHANGED <<urls, max_depth, max_results, overshoot, idx, crawl_subgraph,
                   subgraph, issued, sessionVars, mergeVars>>

\* The call of line 174 on a loop that walks the list from its end.
call_crawl_Reversed ==
    /\ pc = "crawl"
    /\ LET url == urls[Len(urls) + 1 - idx]
           entry == [url |-> url, at |-> idx, budget |-> remaining_results,
                     have |-> Len(all_nodes(crawl_subgraph))]
       IN /\ issued' = Append(issued, entry)
          /\ subgraph' = crawl(base_allowed_domains, url, max_depth, remaining_results)
          /\ session_allowed_domains' = session_after(url, TRUE)
          /\ last_session' = [started |-> TRUE, id |-> url, restrict |-> TRUE,
                              before |-> session_allowed_domains]
          /\ pc' = "merge"
    /\ UNCHANGED <<base_allowed_domains, ret, graphs, urls, max_depth, max_results,
                   overshoot, idx, crawl_subgraph, remaining_results, mergeVars>>

\* Line 174: self.crawl(url, max_depth, remaining_results).  The call either
\* returns a graph, holding at most `overshoot` nodes more than its budget,
\* or raises, before or after it started its session; nothing in
\* crawl_multiple_urls catches what it raises.
call_crawl ==
    /\ pc = "crawl"
    /\ LET url == urls[idx]
           entry == [url |-> url, at |-> idx, budget |-> remaining_results,
                     have |-> Len(all_nodes(crawl_subgraph))]
           started == [started |-> TRUE, id |-> url, restrict |-> TRUE,
                       before |-> session_allowed_domains]
       IN /\ issued' = Append(issued, entry)
          /\ \/ /\ \E over \in 0..overshoot :
                      subgraph' = crawl(base_allowed_domains, url, max_depth,
                                        IF remaining_results.some
                                        THEN Some(remaining_results.val + over)
                                        ELSE NoneVal)
                /\ session_allowed_domains' = session_after(url, TRUE)
                /\ last_session' = started
                /\ pc' = "merge"
             \/ /\ pc' = "raised"
                /\ \E in_session \in BOOLEAN :
                      IF in_session
                      THEN /\ session_allowed_domains' = session_after(url, TRUE)
                           /\ last_session' = started
                      ELSE UNCHANGED <<session_allowed_domains, last_session>>
                /\ UNCHANGED subgraph
    /\ UNCHANGED <<base_allowed_domains, ret, graphs, urls, max_depth, max_results,
                   overshoot, idx, crawl_subgraph, remaining_results, mergeVars>>

\* The first n elements of a sequence.
Prefix(s, n) == SubSeq(s, 1, IF n < Len(s) THEN n ELSE Len(s))

\* A merge followed by a trim of the accumulator to max_results nodes.
merge_subgraph_Trim ==
    /\ pc = "merge"
    /\ LET merged == graph_update(crawl_subgraph, subgraph) IN
       crawl_subgraph' =
           IF max_results.some
           THEN [merged EXCEPT !.nodes = Prefix(@, max_results.val)]
           ELSE merged
    /\ idx' = idx + 1
    /\ pc' = "for"
    /\ UNCHANGED <<urls, max_depth, max_results, overshoot, remaining_results,
                   subgraph, issued, sessionVars, mergeVars>>

\* A merge that does not move on to the next seed.
merge_subgraph_NoAdvance ==
    /\ pc = "merge"
    /\ crawl_subgraph' = graph_update(crawl_subgraph, subgraph)
    /\ pc' = "for"
    /\ UNCHANGED <<urls, max_depth, max_results, overshoot, remaining_results,
                   idx, subgraph, issued, sessionVars, mergeVars>>

\* Line 175: the subgraph is merged into the accumulator.
merge_subgraph ==
    /\ pc = "merge"
    /\ crawl_subgraph' = graph_update(crawl_subgraph, subgraph)
    /\ idx' = idx + 1
    /\ pc' = "for"
    /\ UNCHANGED <<urls, max_depth, max_results, overshoot, remaining_results,
                   subgraph, issued, sessionVars, mergeVars>>

\* The seed lists and budgets crawl_multiple_urls is called with.
RECURSIVE SeqsUpTo(_, _)
SeqsUpTo(S, n) ==
    IF n = 0 THEN {<<>>}
    ELSE LET shorter == SeqsUpTo(S, n - 1) IN
         shorter \cup {Append(q, x) : q \in shorter, x \in S}

SeedLists == SeqsUpTo(Seeds, MaxSeeds)
Budgets == {NoneVal} \cup {Some(n) : n \in 0..MaxResults}

\* ------------------------------------------------------------ specification
\* WebCrawler.__init__(allowed_domains)
InitCrawler ==
    /\ base_allowed_domains \in BaseChoices
    /\ session_allowed_domains = <<>>
    /\ last_session = NoSession
    /\ ret = NoRet
    /\ graphs = <<>>

InitBatch ==
    /\ pc = "idle"
    /\ urls = <<>>
    /\ max_depth = 1
    /\ max_results = NoneVal
    /\ overshoot = 0
    /\ idx = 1
    /\ crawl_subgraph = EmptyGraph
    /\ remaining_results = NoneVal
    /\ subgraph = EmptyGraph
    /\ issued = <<>>

InitMerge ==
    /\ mA = EmptyGraph
    /\ mB = EmptyGraph
    /\ mAB = EmptyGraph
    /\ mBA = EmptyGraph
    /\ mOnce = EmptyGraph
    /\ mpc = 0

Init == InitCrawler /\ InitBatch /\ InitMerge

Next ==
    \/ \E s \in SessionStarts, r \in BOOLEAN : start_session_dropped(s, r)
    \/ \E u \in Urls : get_node(u)
    \/ \E u \in Urls : in_allowed_domain(u)
    \/ \E u \in Urls : visit_node_neighborhood(WebNode(u))

Spec == Init /\ [][Next]_vars

\* One call of the batch API, on a crawler constructed with any of the
\* allow-lists; the call ends at pc = "return" (line 177) or pc = "raised".
call_crawl_multiple_urls ==
    /\ pc = "idle"
    /\ \E us \in SeedLists, md \in 0..MaxDepth, mr \in Budgets, k \in 0..MaxOvershoot :
           crawl_multiple_urls(us, md, mr, k)

NextBatch ==
    \/ call_crawl_multiple_urls
    \/ for_url
    \/ call_crawl
    \/ merge_subgraph

SpecBatch == Init /\ [][NextBatch]_vars

\* The control-flow effect of line 174 and of line 175: the call of crawl
\* comes back (with a subgraph or with an exception), the merge falls through
\* to the loop head.  Neither statement has a guard of its own, so each is
\* available exactly when the program counter stands on it.
call_crawl_returns == pc = "crawl" /\ pc' \in {"merge", "raised"}

merge_subgraph_returns == pc = "merge" /\ pc' = "for"

\* One call of the batch API whose crawls go to the full depth and keep to
\* their budget.
call_crawl_multiple_urls_exact ==
    /\ pc = "idle"
    /\ \E us \in SeedLists, mr \in Budgets : crawl_multiple_urls(us, MaxDepth, mr, 0)

NextBatchExact ==
    \/ call_crawl_multiple_urls_exact
    \/ for_url
    \/ call_crawl
    \/ merge_subgraph

\* The method runs on one thread and every crawl it calls comes back: a
\* statement the program counter stands on is eventually executed.
SpecBatchFair ==
    /\ Init /\ [][NextBatchExact]_vars
    /\ WF_vars(for_url)
    /\ WF_pc(call_crawl_returns)
    /\ WF_pc(merge_subgraph_returns)

\* ------------------------------------------------------ a crawler's lifetime
\* The owner of a session graph adds a node to it, as the crawl loop does
\* with the neighbours it visits.
caller_add_node(i, id) ==
    /\ pc = "idle"
    /\ i \in 1..Len(graphs)
    /\ id \notin graphs[i].added
    /\ graphs' = [graphs EXCEPT ![i].graph = add_node(@, id),
                                ![i].added = @ \cup {id}]
    /\ UNCHANGED <<base_allowed_domains, session_allowed_domains, last_session,
                   ret, batchVars, mergeVars>>

\* Line 177, or the exception of line 174 reaching the caller: the call of
\* crawl_multiple_urls is over, its locals are gone, the crawler is used on.
return_to_caller ==
    /\ pc \in {"return", "raised"}
    /\ pc' = "idle"
    /\ urls' = <<>>
    /\ max_depth' = 1
    /\ max_results' = NoneVal
    /\ overshoot' = 0
    /\ idx' = 1
    /\ crawl_subgraph' = EmptyGraph
    /\ remaining_results' = NoneVal
    /\ subgraph' = EmptyGraph
    /\ issued' = <<>>
    /\ UNCHANGED <<sessionVars, mergeVars>>

\* What one crawler is asked over its lifetime: every operation of the
\* class, in any order, on a few identifiers.
LifeStarts == {SeedA, UrlNoScheme}
LifeUrls == {SeedA, UrlB2}
LifeAdded == {UrlB2}
LifeSeedLists == {<<>>, <<SeedB, SeedA>>}

call_crawl_multiple_urls_again ==
    /\ pc = "idle"
    /\ \E us \in LifeSeedLists : crawl_multiple_urls(us, 1, NoneVal, 0)

NextLifetime ==
    \/ \E s \in LifeStarts, r \in BOOLEAN : start_session_held(s, r)
    \/ \E u \in LifeUrls : get_node(u)
    \/ \E u \in LifeUrls : in_allowed_domain(u)
    \/ \E u \in LifeUrls : visit_node_neighborhood(WebNode(u))
    \/ \E i \in 1..MaxGraphs, u \in LifeAdded : caller_add_node(i, u)
    \/ call_crawl_multiple_urls_again
    \/ for_url
    \/ call_crawl
    \/ merge_subgraph
    \/ return_to_caller

SpecLifetime == Init /\ [][NextLifetime]_vars

\* ------------------------------------------------------------ merge algebra
\* Two subgraphs A and B over a few pages are merged into empty accumulators
\* in both orders, then B is merged into the first accumulator once more.
RECURSIVE SetToSeq(_)
SetToSeq(S) ==
    IF S = {} THEN <<>>
    ELSE LET x == CHOOSE y \in S : TRUE IN <<x>> \o SetToSeq(S \ {x})

GraphIdPool == <<SeedA, UrlA1, SeedB, UrlB2, SeedC>>
GraphIds == {GraphIdPool[i] : i \in 1..MaxGraphIds}

choose_subgraphs ==
    /\ mpc = 0
    /\ \E a \in SUBSET GraphIds, b \in SUBSET GraphIds :
         \E ea \in SUBSET {e \in a \X a : e[1] # e[2]},
            eb \in SUBSET {e \in b \X b : e[1] # e[2]} :
            /\ mA' = [nodes |-> SetToSeq(a), edges |-> SetToSeq(ea)]
            /\ mB' = [nodes |-> SetToSeq(b), edges |-> SetToSeq(eb)]
    /\ mpc' = 1
    /\ UNCHANGED <<mAB, mBA, mOnce, sessionVars, batchVars>>

merge_first ==
    /\ mpc = 1
    /\ mAB' = graph_update(EmptyGraph, mA)
    /\ mBA' = graph_update(EmptyGraph, mB)
    /\ mpc' = 2
    /\ UNCHANGED <<mA, mB, mOnce, sessionVars, batchVars>>

merge_second ==
    /\ mpc = 2
    /\ mAB' = graph_update(mAB, mB)
    /\ mBA' = graph_update(mBA, mA)
    /\ mOnce' = graph_update(mAB, mB)
    /\ mpc' = 3
    /\ UNCHANGED <<mA, mB, sessionVars, batchVars>>

merge_again ==
    /\ mpc = 3
    /\ mAB' = graph_update(mAB, mB)
    /\ mpc' = 4
    /\ UNCHANGED <<mA, mB, mBA, mOnce, sessionVars, batchVars>>

NextMerge ==
    \/ choose_subgraphs
    \/ merge_first
    \/ merge_second
    \/ merge_again

SpecMerge == Init /\ [][NextMerge]_vars

\* ------------------------------------------------------------------- claims
\* The effective allow-list of the current state.
Effective == base_allowed_domains \o session_allowed_domains

\* d occurs in u: some window of u spells d, character by character.
Contains(u, d) ==
    \E start \in 1..(Len(u) + 1) :
        /\ start + Len(d) - 1 <= Len(u)
        /\ \A k \in 1..Len(d) : u[start + k - 1] = d[k]

NodeSet(g) == Range(g.nodes)
EdgeSet(g) == Range(g.edges)
SameGraph(g, h) ==
    /\ NodeSet(g) = NodeSet(h)
    /\ EdgeSet(g) = EdgeSet(h)
    /\ Len(g.nodes) = Len(h.nodes)
    /\ Len(g.edges) = Len(h.edges)

\* C1: with a non-empty effective allow-list, in_allowed_domain(url) is true
\* exactly when the url contains one of the listed domains as a substring;
\* with the list ["example.com"] it admits http://example.com/page and
\* http://example.com.evil.com and rejects http://other.com.
C1_SubstringAdmission ==
    (ret.op = "in_allowed_domain" /\ Len(Effective) > 0) =>
        /\ ret.ok = (\E i \in 1..Len(Effective) : Contains(ret.arg, Effective[i]))
        /\ (Effective = <<ExampleCom>> /\ ret.arg = UrlExamplePage) => ret.ok
        /\ (Effective = <<ExampleCom>> /\ ret.arg = UrlEvil) => ret.ok
        /\ (Effective = <<ExampleCom>> /\ ret.arg = UrlOther) => ~ret.ok

C1_Witness ==
    /\ ret.op = "in_allowed_domain"
    /\ Effective = <<ExampleCom>>
    /\ ret.arg = UrlEvil
    /\ ret.ok

\* C2: when base_allowed_domains and session_allowed_domains are both empty,
\* in_allowed_domain returns true for every url.
C2_EmptyListsAdmitAll ==
    (/\ ret.op = "in_allowed_domain"
     /\ base_allowed_domains = <<>>
     /\ session_allowed_domains = <<>>) => ret.ok

\* An unrestricted session was started after a restricted one, and a url of
\* no listed domain was admitted.
C2_Witness ==
    /\ ret.op = "in_allowed_domain"
    /\ base_allowed_domains = <<>>
    /\ session_allowed_domains = <<>>
    /\ last_session.started /\ ~last_session.restrict
    /\ last_session.before = <<DomA>>
    /\ ret.arg = UrlOther
    /\ ret.ok

\* C3: whatever the earlier sessions left, a session started with
\* restrict_to_domain=true leaves session_allowed_domains = [domain of the
\* start id] (["a.com"] for http://a.com/x), and one started with
\* restrict_to_domain=false leaves it empty.
C3_SessionIsolation ==
    last_session.started =>
        /\ last_session.restrict =>
               /\ Len(session_allowed_domains) = 1
               /\ session_allowed_domains[1] = domain_of(last_session.id)
        /\ (last_session.restrict /\ last_session.id = UrlAx) =>
               session_allowed_domains = <<DomA>>
        /\ ~last_session.restrict => session_allowed_domains = <<>>

\* A restricted session on a.com, then an unrestricted one.
C3_Witness ==
    /\ last_session.started /\ ~last_session.restrict
    /\ last_session.before = <<DomA>>
    /\ session_allowed_domains = <<>>
    /\ ret.op = "start_new_crawling_session"

\* C8: visit_node_neighborhood(node) returns one Node per fetched hyperlink
\* that in_allowed_domain admits, in fetch order, repeated hyperlinks kept
\* and nothing added; fetched [http://a.com/1, http://b.com/2] under the
\* allow-list ["a.com"] gives exactly the Node http://a.com/1.
C8_NeighborhoodFilter ==
    ret.op = "visit_node_neighborhood" =>
        LET fetched == Links(ret.arg)
            kept == {i \in 1..Len(fetched) :
                        admits(base_allowed_domains, session_allowed_domains, fetched[i])}
        IN /\ Len(ret.nodes) = Cardinality(kept)
           /\ \A j \in 1..Len(ret.nodes) :
                  \E i \in kept :
                      /\ Cardinality({k \in kept : k <= i}) = j
                      /\ ret.nodes[j] = [id |-> fetched[i]]
           /\ (ret.arg = UrlAx /\ Effective = <<DomA>>) =>
                  ret.nodes = <<[id |-> UrlA1]>>

\* The documented example: of two fetched links only the a.com one is returned.
C8_Witness ==
    /\ ret.op = "visit_node_neighborhood"
    /\ ret.arg = UrlAx
    /\ Effective = <<DomA>>
    /\ ret.nodes = <<[id |-> UrlA1]>>

\* C4: with max_results set and every single-seed crawl returning at most
\* `overshoot` nodes more than its budget, the accumulator never holds more
\* than max_results + overshoot nodes, during the run and when returned.
C4_BudgetBound ==
    max_results.some =>
        Len(all_nodes(crawl_subgraph)) <= max_results.val + overshoot

\* Three disjoint seeds of five pages each, max_results = 8, no overshoot:
\* eight nodes are returned after two crawls.
C4_Witness ==
    /\ pc = "return"
    /\ urls = <<SeedA, SeedB, SeedC>>
    /\ base_allowed_domains = <<>>
    /\ max_depth = 1
    /\ max_results = Some(8)
    /\ overshoot = 0
    /\ Len(issued) = 2
    /\ Len(all_nodes(crawl_subgraph)) = 8

\* C5: with max_results set, a single-seed crawl is issued only while the
\* accumulator holds fewer than max_results nodes; once it holds that many
\* the loop is at its head or over, and no crawl is issued (none at all
\* when max_results is 0).
C5_NoCrawlPastBudget ==
    max_results.some =>
        /\ \A i \in 1..Len(issued) : issued[i].have < max_results.val
        /\ Len(all_nodes(crawl_subgraph)) >= max_results.val =>
               pc \in {"for", "return"}
        /\ max_results.val = 0 => issued = <<>>

\* The budget was reached with a seed left, which was never crawled.
C5_Witness ==
    /\ pc = "return"
    /\ max_results.some
    /\ Len(all_nodes(crawl_subgraph)) >= max_results.val
    /\ idx = 3 /\ Len(urls) = 3
    /\ Len(issued) = 2
    /\ urls[3] \notin {issued[i].url : i \in 1..Len(issued)}

\* C9: a failure of one single-seed crawl does not end the run of
\* crawl_multiple_urls.
C9_FailureDoesNotAbort == pc # "raised"

\* C10: with max_results set, every single-seed crawl is given the budget
\* max_results - (nodes in the accumulator at the call), which is at least
\* 1; with max_results None every crawl is given None.
C10_BudgetPassed ==
    \A i \in 1..Len(issued) :
        IF max_results.some
        THEN /\ issued[i].budget = Some(max_results.val - issued[i].have)
             /\ issued[i].budget.val >= 1
        ELSE issued[i].budget = NoneVal

\* A second crawl was given what the first left of the budget.
C10_Witness ==
    /\ Len(issued) = 2
    /\ max_results = Some(8)
    /\ issued[2].have = 5
    /\ issued[2].budget = Some(3)

\* C6: merging the same subgraph into an accumulator a second time leaves
\* the accumulator's nodes and edges as they were after the first merge.
C6_MergeIdempotent == mpc = 4 => SameGraph(mAB, mOnce)

\* B, with nodes and an edge, was merged twice into an accumulator that
\* shares a node with it.
C6_Witness ==
    /\ mpc = 4
    /\ mB.edges # <<>>
    /\ NodeSet(mA) \cap NodeSet(mB) # {}
    /\ NodeSet(mA) # NodeSet(mB)

\* C7: merging A then B into an empty accumulator gives the same nodes and
\* edges as merging B then A.
C7_MergeCommutes == mpc >= 3 => SameGraph(mAB, mBA)

\* A and B share a source node whose neighbours differ.
C7_Witness ==
    /\ mpc = 3
    /\ \E x \in NodeSet(mA) \cap NodeSet(mB) :
           {e \in EdgeSet(mA) : e[1] = x} # {e \in EdgeSet(mB) : e[1] = x}
    /\ EdgeSet(mAB) # {}


\* C11: crawl_multiple_urls([]) issues no single-seed crawl, raises nothing
\* and returns a graph with no nodes and no edges, whatever max_depth and
\* max_results are.
C11_EmptyInput ==
    (pc # "idle" /\ urls = <<>>) =>
        /\ pc \in {"for", "return"}
        /\ issued = <<>>
        /\ crawl_subgraph = EmptyGraph

C11_Witness ==
    /\ pc = "return"
    /\ urls = <<>>
    /\ max_results = Some(0)
    /\ max_depth = 0
    /\ crawl_subgraph = EmptyGraph

\* C12: the graph a session start returns holds the start node and nothing
\* else, and every graph handed out is an object of its own: it holds its own
\* start node and what its owner added to it, never what went into another.
C12_FreshGraph ==
    /\ ret.op = "start_new_crawling_session" =>
           /\ ret.graph.nodes = <<ret.arg>>
           /\ ret.graph.edges = <<>>
    /\ \A i \in 1..Len(graphs) :
           /\ NodeSet(graphs[i].graph) = {graphs[i].start} \cup graphs[i].added
           /\ Len(graphs[i].graph.nodes) = Cardinality(NodeSet(graphs[i].graph))
           /\ graphs[i].graph.edges = <<>>

\* Two sessions from the same seed; a node was added to the first one's
\* graph before the second was started, and the second graph does not have it.
C12_Witness ==
    /\ ret.op = "start_new_crawling_session"
    /\ ret.arg = SeedA
    /\ Len(graphs) = 2
    /\ graphs[1].start = SeedA
    /\ graphs[1].added = {UrlB2}
    /\ graphs[1].graph.nodes = <<SeedA, UrlB2>>
    /\ graphs[2].start = SeedA
    /\ graphs[2].added = {}
    /\ graphs[2].graph = ret.graph

\* C13: while a restriction is active, here a session restricted to a seed
\* from which no domain can be derived, in_allowed_domain rejects a candidate
\* that is malformed (no host can be derived from it either).
C13_MalformedRejected ==
    (/\ ret.op = "in_allowed_domain"
     /\ last_session.started /\ last_session.restrict
     /\ domain_of(last_session.id) = <<>>
     /\ Len(Effective) > 0
     /\ domain_of(ret.arg) = <<>>)
        => ~ret.ok

\* C14: only a session start writes session_allowed_domains, that of the
\* caller or that of the single-seed crawl of line 174; get_node,
\* in_allowed_domain, visit_node_neighborhood and the merge of line 175
\* leave the list as it is.
C14_SessionFrame ==
    [][/\ session_allowed_domains' # session_allowed_domains =>
             /\ \/ pc = "idle" /\ ret'.op = "start_new_crawling_session"
                \/ pc = "crawl"
             /\ last_session'.started
             /\ last_session'.before = session_allowed_domains
       /\ (pc = "idle" /\ ret' # ret /\ ret'.op \in {"get_node", "in_allowed_domain",
                                                   "visit_node_neighborhood"})
             => session_allowed_domains' = session_allowed_domains
       /\ pc = "merge" => session_allowed_domains' = session_allowed_domains
       /\ pc \in {"for", "return", "raised"} =>
             session_allowed_domains' = session_allowed_domains]_vars

\* A visit made in a session restricted to a.com, then a batch call over
\* [b, a] whose two merges are done: the list is the one the last crawl set.
C14_Witness ==
    /\ pc = "return"
    /\ urls = <<SeedB, SeedA>>
    /\ idx = 3
    /\ ret.op = "visit_node_neighborhood"
    /\ last_session = [started |-> TRUE, id |-> SeedA, restrict |-> TRUE,
                       before |-> <<DomB>>]
    /\ session_allowed_domains = <<DomA>>

\* C15: no step of any operation changes base_allowed_domains.
C15_BaseImmutable ==
    [][base_allowed_domains' = base_allowed_domains]_vars

\* A crawler constructed with [a.com, b.com] has started a restricted
\* session, answered an admission check and finished a batch call.
C15_Witness ==
    /\ pc = "idle"
    /\ base_allowed_domains = <<DomA, DomB>>
    /\ ret.op = "in_allowed_domain"
    /\ ret.ok
    /\ last_session.started
    /\ last_session.id = SeedA
    /\ last_session.before = <<DomB>>
    /\ Len(graphs) = 1

\* C16: session_allowed_domains is empty until the first session start and
\* after a start with restrict_to_domain = false, and holds the one domain
\* of the start node after a start with restrict_to_domain = true.
C16_AtMostOneDomain ==
    /\ Len(session_allowed_domains) <= 1
    /\ ~last_session.started => session_allowed_domains = <<>>
    /\ (last_session.started /\ ~last_session.restrict) =>
           session_allowed_domains = <<>>
    /\ (last_session.started /\ last_session.restrict) =>
           session_allowed_domains = <<domain_of(last_session.id)>>

\* A session restricted to a.com is followed by an unrestricted one: the
\* list held a.com and is empty again.
C16_Witness ==
    /\ last_session = [started |-> TRUE, id |-> SeedA, restrict |-> FALSE,
                       before |-> <<DomA>>]
    /\ session_allowed_domains = <<>>
    /\ ret.op = "start_new_crawling_session"

\* C17: the seeds are crawled one after the other in input order: the i-th
\* crawl of a run is that of urls[i], it is issued only when the i-1 earlier
\* subgraphs have been merged, and the crawled seeds are a prefix of urls.
C17_SequentialInOrder ==
    /\ \A i \in 1..Len(issued) : issued[i].at = i /\ issued[i].url = urls[i]
    /\ Len(issued) <= Len(urls)
    /\ pc \in {"for", "crawl", "return"} => Len(issued) = idx - 1
    /\ pc \in {"merge", "raised"} => Len(issued) = idx

\* Three different seeds were crawled, in the order given.
C17_Witness ==
    /\ pc = "return"
    /\ urls = <<SeedB, SeedA, SeedC>>
    /\ Len(issued) = 3
    /\ issued[1].url = SeedB /\ issued[2].url = SeedA /\ issued[3].url = SeedC

\* C18: a merge step leaves the accumulator's nodes equal to its earlier
\* nodes united with the subgraph's, and its edges likewise, each id and
\* each edge held once: nothing is removed and nothing trimmed.
C18_MergeIsUnion ==
    [][(pc = "merge" /\ pc' = "for") =>
          /\ NodeSet(crawl_subgraph') = NodeSet(crawl_subgraph) \cup NodeSet(subgraph)
          /\ EdgeSet(crawl_subgraph') = EdgeSet(crawl_subgraph) \cup EdgeSet(subgraph)
          /\ Len(crawl_subgraph'.nodes) = Cardinality(NodeSet(crawl_subgraph'))
          /\ Len(crawl_subgraph'.edges) = Cardinality(EdgeSet(crawl_subgraph'))]_vars

\* The crawls of a.com and b.com both hold http://b.com/1: six and five
\* nodes merge into ten.
C18_Witness ==
    /\ pc = "for" /\ idx = 3
    /\ urls = <<SeedA, SeedB>>
    /\ base_allowed_domains = <<DomA, DomB>>
    /\ max_results = NoneVal /\ max_depth = 1
    /\ Len(subgraph.nodes) = 5
    /\ Page(DomB, <<"1">>) \in NodeSet(subgraph)
    /\ Len(crawl_subgraph.nodes) = 10

\* C19: after a session was started with restrict_to_domain = true on s and
\* until the next session start, every node visit_node_neighborhood returns
\* has an id that contains domain_of(s) or an entry of base_allowed_domains.
C19_SessionConfinement ==
    (/\ ret.op = "visit_node_neighborhood"
     /\ last_session.started /\ last_session.restrict)
        => \A i \in 1..Len(ret.nodes) :
              \/ Contains(ret.nodes[i].id, domain_of(last_session.id))
              \/ \E j \in 1..Len(base_allowed_domains) :
                     Contains(ret.nodes[i].id, base_allowed_domains[j])

\* The seed page of a.com is visited in a session restricted to a.com by a
\* crawler without a list of its own: its five links into a.com come back,
\* the link to b.com does not.
C19_Witness ==
    /\ ret.op = "visit_node_neighborhood"
    /\ ret.arg = SeedA
    /\ last_session = [started |-> TRUE, id |-> SeedA, restrict |-> TRUE,
                       before |-> <<>>]
    /\ base_allowed_domains = <<>>
    /\ Len(Links(SeedA)) = 6
    /\ Len(ret.nodes) = 5

\* C20: a run issues at most one single-seed crawl per entry of urls and
\* comes to its end, by exhausting the seeds or the budget (or by the
\* exception of a crawl that raised).
C20_Terminates ==
    /\ [](Len(issued) <= Len(urls))
    /\ (pc = "for") ~> (pc \in {"return", "raised"})

\* The run ended by exhausting its three seeds.
C20_Witness ==
    /\ pc = "return"
    /\ Len(urls) = 3
    /\ idx = 4
    /\ Len(issued) = 3

====
